---- MODULE Spec2Model ----
(***************************************************************************)
(* Crash-input minimiser of src/afl-tmin-delta.cpp: nearest-seed           *)
(* selection, Levenshtein table with back-pointers, edit replay and the    *)
(* ddmin-style search over the edit trace.                                 *)
(*                                                                         *)
(* Byte sequences (byte_array) are TLA+ sequences of small naturals; the   *)
(* C++ containers are 0-based, TLA+ sequences 1-based, so v[i] of the      *)
(* source is v[i + 1] here.                                                *)
(***************************************************************************)
EXTENDS Integers, Sequences, FiniteSets, TLC

\* ------------------------------------------------------------------ bounds
\* longest seed of the corpus
MaxSeedLen == 1
\* longest crashing input handed to entry_point
MaxCrashLen == 3
\* most seeds in the corpus
MaxCorpus == 2
\* longest sequence edit_distance is given as from
MaxFrom == 3
\* longest sequence edit_distance is given as to
MaxTo == 3
\* longest edit trace handed directly to delta_edit
MaxTrace == 3
\* longest base sequence handed directly to delta_edit
MaxBase == 1

\* the byte values the inputs are drawn from
Bytes == {1, 2}

RECURSIVE SeqsUpTo(_, _)
\* every sequence over S of length at most n
SeqsUpTo(S, n) ==
  IF n = 0 THEN {<<>>}
  ELSE LET shorter == SeqsUpTo(S, n - 1)
       IN  shorter \cup {Append(s, x) : s \in shorter, x \in S}

\* ------------------------------------------------------------ edit (l.52-69)
ins(index, data) == [kind |-> "INS", index |-> index, data |-> data]
del(index) == [kind |-> "DEL", index |-> index]
sub(index, data) == [kind |-> "SUB", index |-> index, data |-> data]
\* std::nullopt of std::optional<edit>
nullopt == [kind |-> "nullopt"]

\* lookup_data_t {dist, last_edit, last_row, last_col}
lookup_data_t(dist, last_edit, last_row, last_col) ==
  [dist |-> dist, last_edit |-> last_edit, last_row |-> last_row, last_col |-> last_col]

\* std::min({a, b, c})
min3(a, b, c) ==
  IF a <= b /\ a <= c THEN a ELSE IF b <= c THEN b ELSE c

\* lookup[i][j] of the source
At(lookup, i, j) == lookup[i + 1][j + 1]

\* ------------------------------------------------- edit_distance (l.85-139)
\* the table after the edge-case loops: value-initialised cells, then row 0
\* and column 0
lookup_edges(from, to) ==
  [r \in 1..(Len(from) + 1) |->
    [c \in 1..(Len(to) + 1) |->
      LET i == r - 1
          j == c - 1
      IN  IF i = 0 /\ j = 0 THEN lookup_data_t(0, nullopt, 0, 0)
          ELSE IF i = 0 THEN lookup_data_t(j, ins(j - 1, to[j]), 0, j - 1)
          ELSE IF j = 0 THEN lookup_data_t(i, del(i - 1), i - 1, 0)
          ELSE lookup_data_t(0, nullopt, 0, 0)]]

\* faulty variant of interior_cell: a byte match is charged like an edit,
\* though none is recorded
interior_cell_match_costs(lookup, from, to, i, j) ==
  IF from[i] = to[j]
  THEN lookup_data_t(At(lookup, i - 1, j - 1).dist + 1, nullopt, i - 1, j - 1)
  ELSE LET dist == min3(At(lookup, i, j - 1).dist,
                        At(lookup, i - 1, j).dist,
                        At(lookup, i - 1, j - 1).dist)
       IN  IF dist = At(lookup, i, j - 1).dist
           THEN lookup_data_t(dist + 1, ins(i, to[j]), i, j - 1)
           ELSE IF dist = At(lookup, i - 1, j).dist
           THEN lookup_data_t(dist + 1, del(i - 1), i - 1, j)
           ELSE lookup_data_t(dist + 1, sub(i - 1, to[j]), i - 1, j - 1)

\* faulty variant of interior_cell: the substitute predecessor is left out of
\* the minimum
interior_cell_no_substitute(lookup, from, to, i, j) ==
  IF from[i] = to[j]
  THEN lookup_data_t(At(lookup, i - 1, j - 1).dist, nullopt, i - 1, j - 1)
  ELSE LET dist == min3(At(lookup, i, j - 1).dist,
                        At(lookup, i - 1, j).dist,
                        At(lookup, i - 1, j).dist)
       IN  IF dist = At(lookup, i, j - 1).dist
           THEN lookup_data_t(dist + 1, ins(i, to[j]), i, j - 1)
           ELSE lookup_data_t(dist + 1, del(i - 1), i - 1, j)

\* faulty variant of interior_cell: on a tie the delete is preferred to the
\* insert
interior_cell_delete_first(lookup, from, to, i, j) ==
  IF from[i] = to[j]
  THEN lookup_data_t(At(lookup, i - 1, j - 1).dist, nullopt, i - 1, j - 1)
  ELSE LET dist == min3(At(lookup, i, j - 1).dist,
                        At(lookup, i - 1, j).dist,
                        At(lookup, i - 1, j - 1).dist)
       IN  IF dist = At(lookup, i - 1, j).dist
           THEN lookup_data_t(dist + 1, del(i - 1), i - 1, j)
           ELSE IF dist = At(lookup, i, j - 1).dist
           THEN lookup_data_t(dist + 1, ins(i, to[j]), i, j - 1)
           ELSE lookup_data_t(dist + 1, sub(i - 1, to[j]), i - 1, j - 1)

\* the value the double loop stores in lookup[i][j], 1 <= i, 1 <= j
interior_cell(lookup, from, to, i, j) ==
  IF from[i] = to[j]
  THEN lookup_data_t(At(lookup, i - 1, j - 1).dist, nullopt, i - 1, j - 1)
  ELSE LET dist == min3(At(lookup, i, j - 1).dist,
                        At(lookup, i - 1, j).dist,
                        At(lookup, i - 1, j - 1).dist)
       IN  IF dist = At(lookup, i, j - 1).dist
           THEN lookup_data_t(dist + 1, ins(i, to[j]), i, j - 1)
           ELSE IF dist = At(lookup, i - 1, j).dist
           THEN lookup_data_t(dist + 1, del(i - 1), i - 1, j)
           ELSE lookup_data_t(dist + 1, sub(i - 1, to[j]), i - 1, j - 1)

RECURSIVE fill_table(_, _, _, _, _)
\* the double loop over i and j, row by row
fill_table(lookup, from, to, i, j) ==
  IF i > Len(from) THEN lookup
  ELSE IF j > Len(to) THEN fill_table(lookup, from, to, i + 1, 1)
  ELSE fill_table(
         [lookup EXCEPT ![i + 1][j + 1] = interior_cell(lookup, from, to, i, j)],
         from, to, i, j + 1)

RECURSIVE trace_walk(_, _, _)
\* the while loop of get_trace from (cur_row, cur_col)
trace_walk(lookup, cur_row, cur_col) ==
  IF cur_row > 0 \/ cur_col > 0
  THEN LET cell == At(lookup, cur_row, cur_col)
       IN  (IF cell.last_edit # nullopt THEN <<cell.last_edit>> ELSE <<>>)
             \o trace_walk(lookup, cell.last_row, cell.last_col)
  ELSE <<>>

\* get_trace (l.141-153); dest is not read by the source either
get_trace(lookup, dest) ==
  trace_walk(lookup, Len(lookup) - 1, Len(lookup[1]) - 1)

\* edit_distance_return_t {dist, trace}
edit_distance(from, to) ==
  LET lookup == fill_table(lookup_edges(from, to), from, to, 1, 1)
  IN  [dist |-> At(lookup, Len(from), Len(to)).dist,
       trace |-> get_trace(lookup, to)]

\* --------------------------------------------------- apply_edit (l.197-223)
\* v.insert(v.begin() + index, data)
insert_at(v, index, data) ==
  SubSeq(v, 1, index) \o <<data>> \o SubSeq(v, index + 1, Len(v))

\* v.erase(v.begin() + index)
erase_at(v, index) ==
  SubSeq(v, 1, index) \o SubSeq(v, index + 2, Len(v))

apply_edit(single_edit, orig) ==
  IF orig = <<>> THEN orig
  ELSE IF single_edit.kind = "INS"
  THEN LET index == IF single_edit.index >= Len(orig) THEN Len(orig)
                    ELSE single_edit.index
       IN  insert_at(orig, index, single_edit.data)
  ELSE IF single_edit.kind = "DEL"
  THEN LET index == IF single_edit.index >= Len(orig) THEN Len(orig) - 1
                    ELSE single_edit.index
       IN  erase_at(orig, index)
  ELSE IF single_edit.kind = "SUB"
  THEN LET index == IF single_edit.index >= Len(orig) THEN Len(orig) - 1
                    ELSE single_edit.index
       IN  [orig EXCEPT ![index + 1] = single_edit.data]
  ELSE orig

RECURSIVE apply_from_shifted(_, _, _, _)
\* faulty variant of apply_from: the mask is read one entry too far
apply_from_shifted(trace, result, mask, i) ==
  IF i >= Len(trace) THEN result
  ELSE IF i + 1 < Len(mask) /\ ~mask[i + 2]
  THEN apply_from_shifted(trace, result, mask, i + 1)
  ELSE apply_from_shifted(trace, apply_edit(trace[i + 1], result), mask, i + 1)

RECURSIVE apply_from(_, _, _, _)
\* the for loop of apply_edits from index i (0-based) on
apply_from(trace, result, mask, i) ==
  IF i >= Len(trace) THEN result
  ELSE IF i < Len(mask) /\ ~mask[i + 1]
  THEN apply_from(trace, result, mask, i + 1)
  ELSE apply_from(trace, apply_edit(trace[i + 1], result), mask, i + 1)

\* faulty variant of apply_edits: the mask is not looked at
apply_edits_unmasked(trace, orig, mask) == apply_from(trace, orig, <<>>, 0)

\* apply_edits (l.224-236); the default mask {} is <<>>
apply_edits(trace, orig, mask) == apply_from(trace, orig, mask, 0)

\* --------------------------------------------- find_closest_initial (l.306-321)
\* static_cast<std::size_t>(-1); the model's integers are 32 bits wide, so the
\* largest of them stands for it: every distance of the model is far below both
SIZE_MAX == 2147483647

RECURSIVE closest_scan_last(_, _, _, _, _)
\* faulty variant of closest_scan: an equal distance replaces the seed found
closest_scan_last(testcases, crash_, n, min_dist, ptr_max) ==
  IF n > Len(testcases) THEN ptr_max
  ELSE LET d == edit_distance(testcases[n], crash_).dist
       IN  IF d <= min_dist
           THEN closest_scan_last(testcases, crash_, n + 1, d, n)
           ELSE closest_scan_last(testcases, crash_, n + 1, min_dist, ptr_max)

RECURSIVE closest_scan(_, _, _, _, _)
\* the range-for over input_testcases from the n-th seed on; ptr_max is the
\* 1-based position of the seed pointed to, 0 for nullptr
closest_scan(testcases, crash_, n, min_dist, ptr_max) ==
  IF n > Len(testcases) THEN ptr_max
  ELSE LET d == edit_distance(testcases[n], crash_).dist
       IN  IF d < min_dist
           THEN closest_scan(testcases, crash_, n + 1, d, n)
           ELSE closest_scan(testcases, crash_, n + 1, min_dist, ptr_max)

\* position in the corpus of the seed find_closest_initial returns by value
closest_index(testcases, crash_) == closest_scan(testcases, crash_, 1, SIZE_MAX, 0)

find_closest_initial(testcases, crash_) == testcases[closest_index(testcases, crash_)]

\* ------------------------------------------------ test_partitions (l.240-278)
\* faulty variant of chunk_mask: the index end is part of the chunk too
chunk_mask_inclusive(size, start_, end_) ==
  [j \in 1..size |-> start_ <= j - 1 /\ j - 1 <= end_]

\* mask_array mask(size, false), then true on [start, end)
chunk_mask(size, start_, end_) ==
  [j \in 1..size |-> start_ <= j - 1 /\ j - 1 < end_]

\* faulty variant of complement: no entry is true
complement_empty(m) == [j \in 1..Len(m) |-> FALSE]

\* compl_mask: every entry of mask negated
complement(m) == [j \in 1..Len(m) |-> ~m[j]]

RECURSIVE masked_from(_, _, _)
\* the loop of delta_edit that builds new_trace (l.290-295), from index i on
masked_from(trace_, m, i) ==
  IF i >= Len(trace_) THEN <<>>
  ELSE IF i < Len(m) /\ ~m[i + 1] THEN masked_from(trace_, m, i + 1)
  ELSE <<trace_[i + 1]>> \o masked_from(trace_, m, i + 1)

\* faulty variant of new_trace: the edits the mask drops are the ones kept
new_trace_inverted(trace_, m) == masked_from(trace_, complement(m), 0)

\* faulty variant of new_trace: new_trace starts as a copy of the old trace
new_trace_appended(trace_, m) == trace_ \o masked_from(trace_, m, 0)

\* new_trace as delta_edit builds it from the mask (l.289-295)
new_trace(trace_, m) == masked_from(trace_, m, 0)

\* ------------------------------------------------------------------- state
VARIABLES
  path_kind,        \* read_testcase_dir: what dir_ptr names
  input_testcases,  \* the global corpus, a sequence of byte sequences
  mem,              \* the bytes the caller's *mem designates
  crash,            \* entry_point: the caller's buffer copied into crash
  orig,             \* entry_point: the selected seed; delta_edit's base
  dist,             \* entry_point: edit_distance(orig, crash).dist
  trace,            \* the trace delta_edit was first called with
  result,           \* entry_point: the full trace replayed on orig (l.344)
  cur_trace,        \* delta_edit: the working trace
  parts,            \* delta_edit: the granularity
  start,            \* test_partitions: first index of the next chunk
  remainder,        \* test_partitions: chunks still owed one extra element
  end,              \* test_partitions: one past the chunk under test
  mask,             \* test_partitions: the mask of the chunk under test
  stable,           \* whether the target answers alike for alike bytes
  answers,          \* what a stable target has answered: <<bytes, bool>>
  calls,            \* how many times crash_predicate was called
  result2,          \* entry_point: the minimised bytes (l.351)
  len_ptr,          \* entry_point: *len_ptr
  run,              \* which call of delta_edit is under way
  first_trace,      \* what the first call of delta_edit returned
  pc                \* where control is

vars == <<path_kind, input_testcases, mem, crash, orig, dist, trace, result, cur_trace, parts,
          start, remainder, end, mask, stable, answers, calls, result2,
          len_ptr, run, first_trace, pc>>

\* locals of test_partitions outside a call of it
no_scan == start = 0 /\ remainder = 0 /\ end = 0 /\ mask = <<>>
leave_scan == start' = 0 /\ remainder' = 0 /\ end' = 0 /\ mask' = <<>>

\* ------------------------------------------------ crash_predicate (l.45-48)
\* the answers run_target_wrap may give for data: a stable target repeats
\* itself, and nothing else is known of it
crash_predicate(data) ==
  IF stable /\ (\E a \in answers : a[1] = data)
  THEN {a[2] : a \in {b \in answers : b[1] = data}}
  ELSE BOOLEAN

\* the call crash_predicate(data) returning b
Ask(data, b) ==
  /\ b \in crash_predicate(data)
  /\ answers' = IF stable THEN answers \cup {<<data, b>>} ELSE answers
  /\ calls' = calls + 1

\* -------------------------------------------- read_testcase_dir (l.379-403)
\* to_bytes("hello")
hello == <<104, 101, 108, 108, 111>>

\* the contents of the regular files a directory may hold, in the order
\* directory_iterator yields them
Seeds == SeqsUpTo(Bytes, MaxSeedLen)

\* input_testcases after read_testcase_dir(dir_ptr) returned, for each thing
\* dir_ptr may name
loaded(kind) ==
  IF kind = "nullptr" THEN {<<hello>>}
  ELSE IF kind = "directory" THEN SeqsUpTo(Seeds, MaxCorpus)
  ELSE IF kind = "regular file" THEN {<<seed>> : seed \in Seeds}
  ELSE {<<>>}

\* l.381-403: clear the corpus and load it again; a path that does not exist
\* throws
ReadTestcaseDir ==
  /\ pc = "read_testcase_dir"
  /\ IF path_kind = "missing"
     THEN /\ input_testcases' = <<>>
          /\ pc' = "path_error"
     ELSE /\ input_testcases' \in loaded(path_kind)
          /\ pc' = "entry_point"
  /\ UNCHANGED <<path_kind, mem, crash, orig, dist, trace, result, cur_trace, parts,
                 start, remainder, end, mask, stable, answers, calls,
                 result2, len_ptr, run, first_trace>>

\* -------------------------------------------------- entry_point (l.323-360)
\* a selection that goes on with an empty seed where the corpus is empty
EntryPointSelect_unchecked ==
  /\ pc = "entry_point"
  /\ orig' = IF input_testcases = <<>> THEN <<>>
             ELSE find_closest_initial(input_testcases, crash)
  /\ pc' = "edit_distance"
  /\ UNCHANGED <<path_kind, input_testcases, mem, crash, dist, trace, result,
                 cur_trace, parts, start, remainder, end, mask, stable, answers,
                 calls, result2, len_ptr, run, first_trace>>

\* l.325-329: copy the buffer, select the seed; an empty corpus throws
EntryPointSelect ==
  /\ pc = "entry_point"
  /\ IF input_testcases = <<>>
     THEN /\ pc' = "logic_error"
          /\ orig' = orig
     ELSE /\ orig' = find_closest_initial(input_testcases, crash)
          /\ pc' = "edit_distance"
  /\ UNCHANGED <<path_kind, input_testcases, mem, crash, dist, trace, result, cur_trace, parts,
                 start, remainder, end, mask, stable, answers, calls,
                 result2, len_ptr, run, first_trace>>

\* l.342-349 and l.281-282: distance and trace, the replay of the full trace,
\* and the call of delta_edit
EntryPointDistance ==
  /\ pc = "edit_distance"
  /\ LET r == edit_distance(orig, crash)
     IN  /\ dist' = r.dist
         /\ trace' = r.trace
         /\ result' = apply_edits(r.trace, orig, <<>>)
         /\ cur_trace' = r.trace
  /\ parts' = 2
  /\ pc' = "delta_edit"
  /\ UNCHANGED <<path_kind, input_testcases, mem, crash, orig, start, remainder, end, mask,
                 stable, answers, calls, result2, len_ptr, run, first_trace>>

\* l.356-359: what the caller's *mem designates afterwards. The block
\* ck_realloc returns is stored in the parameter mem, never in *mem, and the
\* bytes of result2 are written through the pointer read from the first bytes
\* of that block. The caller's pointer is left as it was: it names the old
\* block resized in place or a block already freed, so the n bytes read through
\* it are anything.
handed_back(n) == {b \in SeqsUpTo(Bytes, n) : Len(b) = n}

\* l.350-359: replay the minimised trace and hand the bytes back; the stray
\* read and writes of l.357-359 may also end the process
EntryPointReturn ==
  /\ pc = "return"
  /\ result2' = apply_edits(cur_trace, orig, <<>>)
  /\ \/ /\ pc' = "done"
        /\ len_ptr' = Len(result2')
        /\ mem' \in handed_back(Len(result2'))
     \/ /\ pc' = "segfault"
        /\ len_ptr' \in {len_ptr, Len(result2')}
        /\ mem' = mem
  /\ UNCHANGED <<path_kind, input_testcases, crash, orig, dist, trace, result, cur_trace,
                 parts, start, remainder, end, mask, stable, answers, calls,
                 run, first_trace>>

\* --------------------------------------------------- delta_edit (l.279-304)
\* faulty variant of loop_condition: a trace of one edit is still searched
loop_condition_nonempty(cur, k) == Len(cur) > 0 /\ k <= 2 * Len(cur)

\* faulty variant of loop_condition: the loop ends once there are more chunks
\* asked for than edits
loop_condition_early(cur, k) == Len(cur) > 1 /\ k <= Len(cur)

\* faulty variant of loop_condition: the loop goes on for one doubling more
loop_condition_late(cur, k) == Len(cur) > 1 /\ k <= 4 * Len(cur)

\* l.283: the condition of the while loop
loop_condition(cur, k) == Len(cur) > 1 /\ k <= 2 * Len(cur)

\* l.283-286: the loop test, and the entry into test_partitions (l.242-244)
DeltaEditLoop ==
  /\ pc = "delta_edit"
  /\ IF loop_condition(cur_trace, parts)
     THEN /\ start' = 0
          /\ remainder' = Len(cur_trace) % parts
          /\ pc' = "test_partitions"
     ELSE /\ UNCHANGED <<start, remainder>>
          /\ pc' = "return"
  /\ UNCHANGED <<path_kind, input_testcases, mem, crash, orig, dist, trace, result, cur_trace,
                 parts, end, mask, stable, answers, calls, result2, len_ptr,
                 run, first_trace>>

\* faulty variant of Shrink: the granularity is doubled, not reset
Shrink_doubling(m) ==
  /\ cur_trace' = new_trace(cur_trace, m)
  /\ parts' = parts * 2
  /\ pc' = "delta_edit"
  /\ leave_scan

\* l.287-299: test_partitions returned the mask m
Shrink(m) ==
  /\ cur_trace' = new_trace(cur_trace, m)
  /\ parts' = 2
  /\ pc' = "delta_edit"
  /\ leave_scan

\* l.245-262: the next chunk, its mask, and the oracle on the masked replay
TestChunk ==
  /\ pc = "test_partitions"
  /\ start < Len(cur_trace)
  /\ LET part_size == Len(cur_trace) \div parts
         e == start + part_size + (IF remainder > 0 THEN 1 ELSE 0)
         m == chunk_mask(Len(cur_trace), start, e)
     IN  \E b \in BOOLEAN :
           /\ Ask(apply_edits(cur_trace, orig, m), b)
           /\ IF b
              THEN Shrink(m)
              ELSE /\ remainder' = IF remainder > 0 THEN remainder - 1 ELSE remainder
                   /\ end' = e
                   /\ mask' = m
                   /\ pc' = "complement"
                   /\ UNCHANGED <<cur_trace, parts, start>>
  /\ UNCHANGED <<path_kind, input_testcases, mem, crash, orig, dist, trace, result, stable,
                 result2, len_ptr, run, first_trace>>

\* l.263-274: the complement of the chunk, and the step to the next chunk
TestComplement ==
  /\ pc = "complement"
  /\ LET compl_mask == complement(mask)
     IN  \E b \in BOOLEAN :
           /\ Ask(apply_edits(cur_trace, orig, compl_mask), b)
           /\ IF b
              THEN Shrink(compl_mask)
              ELSE /\ start' = end
                   /\ pc' = "test_partitions"
                   /\ UNCHANGED <<cur_trace, parts, remainder, end, mask>>
  /\ UNCHANGED <<path_kind, input_testcases, mem, crash, orig, dist, trace, result, stable,
                 result2, len_ptr, run, first_trace>>

\* a failed scan that makes the granularity one finer instead of doubling it
PartitionsFailed_increment ==
  /\ pc = "test_partitions"
  /\ ~(start < Len(cur_trace))
  /\ parts' = parts + 1
  /\ pc' = "delta_edit"
  /\ leave_scan
  /\ UNCHANGED <<path_kind, input_testcases, mem, crash, orig, dist, trace, result,
                 cur_trace, stable, answers, calls, result2, len_ptr, run,
                 first_trace>>

\* l.245, l.276-277 and l.301: every chunk failed, the granularity doubles
PartitionsFailed ==
  /\ pc = "test_partitions"
  /\ ~(start < Len(cur_trace))
  /\ parts' = parts * 2
  /\ pc' = "delta_edit"
  /\ leave_scan
  /\ UNCHANGED <<path_kind, input_testcases, mem, crash, orig, dist, trace, result, cur_trace,
                 stable, answers, calls, result2, len_ptr, run, first_trace>>

\* delta_edit called again on what it returned, with the same base and target
DeltaEditAgain ==
  /\ pc = "return"
  /\ run = 1
  /\ run' = 2
  /\ first_trace' = cur_trace
  /\ parts' = 2
  /\ pc' = "delta_edit"
  /\ UNCHANGED <<path_kind, input_testcases, mem, crash, orig, dist, trace, result, cur_trace, start,
                 remainder, end, mask, stable, answers, calls, result2, len_ptr>>

\* ---------------------------------------------------------- specifications
\* what dir_ptr may name: nothing, a path that does not exist, a directory, a
\* regular file, or something that exists and is neither
PathKinds == {"nullptr", "missing", "directory", "regular file", "other"}

\* a run of the host: read_testcase_dir on any path, then entry_point on any
\* buffer a stable target crashes on
Init ==
  /\ path_kind \in PathKinds
  /\ input_testcases = <<>>
  /\ crash \in SeqsUpTo(Bytes, MaxCrashLen)
  /\ mem = crash
  /\ stable = TRUE
  /\ answers = {<<crash, TRUE>>}
  /\ orig = <<>> /\ dist = 0 /\ trace = <<>> /\ result = <<>>
  /\ cur_trace = <<>> /\ parts = 2
  /\ no_scan
  /\ calls = 0
  /\ result2 = <<>> /\ len_ptr = Len(crash)
  /\ run = 1 /\ first_trace = <<>>
  /\ pc = "read_testcase_dir"

DeltaEdit == DeltaEditLoop \/ TestChunk \/ TestComplement \/ PartitionsFailed

Next ==
  ReadTestcaseDir \/ EntryPointSelect \/ EntryPointDistance \/ DeltaEdit
    \/ EntryPointReturn

Spec == Init /\ [][Next]_vars

\* entry_point as far as the call of delta_edit, with a corpus of one seed:
\* edit_distance(from, to) and the replay of its trace on from, for any from
\* and to
InitDistance ==
  /\ path_kind = "regular file"
  /\ input_testcases \in {<<from>> : from \in SeqsUpTo(Bytes, MaxFrom)}
  /\ crash \in SeqsUpTo(Bytes, MaxTo)
  /\ mem = crash
  /\ stable = TRUE
  /\ answers = {<<crash, TRUE>>}
  /\ orig = <<>> /\ dist = 0 /\ trace = <<>> /\ result = <<>>
  /\ cur_trace = <<>> /\ parts = 2
  /\ no_scan
  /\ calls = 0
  /\ result2 = <<>> /\ len_ptr = Len(crash)
  /\ run = 1 /\ first_trace = <<>>
  /\ pc = "entry_point"

NextDistance == EntryPointSelect \/ EntryPointDistance

SpecDistance == InitDistance /\ [][NextDistance]_vars

\* the edits a trace handed directly to delta_edit is made of: each kind at
\* the first position and at the one after it, which a buffer of one byte or
\* none clamps
Edits == {ins(0, 1), ins(1, 2), del(0), del(1), sub(0, 2), sub(1, 1)}

\* a call of delta_edit(trace, orig) on any trace and base; a stable target
\* crashes or does not crash on the full trace replayed on the base
InitDelta ==
  /\ path_kind = "nullptr"
  /\ input_testcases = <<>> /\ crash = <<>> /\ mem = <<>>
  /\ orig \in SeqsUpTo(Bytes, MaxBase)
  /\ trace \in SeqsUpTo(Edits, MaxTrace)
  /\ cur_trace = trace
  /\ dist = Len(trace)
  /\ result = apply_edits(trace, orig, <<>>)
  /\ stable \in BOOLEAN
  /\ answers \in IF stable THEN {{<<result, b>>} : b \in BOOLEAN} ELSE {{}}
  /\ parts = 2
  /\ no_scan
  /\ calls = 0
  /\ result2 = <<>> /\ len_ptr = 0
  /\ run = 1 /\ first_trace = <<>>
  /\ pc = "delta_edit"

NextDelta == DeltaEditLoop \/ TestChunk \/ TestComplement \/ PartitionsFailed

SpecDelta == InitDelta /\ [][NextDelta]_vars

\* delta_edit for what depends on the number of edits and on the answers
\* only (the chunks, the order of the queries, the end of the loop): the
\* traces are drawn from two edits
ScanEdits == {ins(1, 2), del(0)}

InitScan == InitDelta /\ trace \in SeqsUpTo(ScanEdits, MaxTrace)

SpecScan == InitScan /\ [][NextDelta]_vars

\* delta_edit on one thread with an oracle that returns from every call: the
\* statement that is next is executed
SpecDeltaFair == SpecScan /\ WF_vars(NextDelta)

\* delta_edit run twice in a row against a stable target
InitTwice == InitDelta /\ stable

NextTwice ==
  DeltaEditLoop \/ TestChunk \/ TestComplement \/ PartitionsFailed \/ DeltaEditAgain

SpecTwice == InitTwice /\ [][NextTwice]_vars

\* ------------------------------------------------------------------ claims
\* find_closest_initial has just returned the seed to entry_point (l.329);
\* no later step writes the corpus, the crash or the seed
Selected == pc = "edit_distance"

\* entry_point has computed dist and trace and replayed the trace (l.342-344)
Measured == pc \in {"delta_edit", "test_partitions", "complement", "return", "done"}

RECURSIVE levenshtein(_, _, _, _)
\* reference: the distance between the first i bytes of a and the first j
\* bytes of b by the full Wagner-Fischer recurrence, every predecessor
\* considered in every cell
levenshtein(a, b, i, j) ==
  IF i = 0 THEN j
  ELSE IF j = 0 THEN i
  ELSE min3(levenshtein(a, b, i - 1, j) + 1,
            levenshtein(a, b, i, j - 1) + 1,
            levenshtein(a, b, i - 1, j - 1) + (IF a[i] = b[j] THEN 0 ELSE 1))

\* C1 (as claimed): the full trace of edit_distance(from, to), replayed on
\* from with no mask, gives back to byte for byte, empty sequences included
\* (from is orig, to is crash).
RoundTrip == Measured => result = crash

\* C2: against a stable target that crashes on the full trace replayed on the
\* base, the working trace of delta_edit replayed on the base is at every
\* moment, and so at every replacement and at the return, an input the target
\* can only answer "crash" for.
OraclePreserved ==
  (stable /\ <<result, TRUE>> \in answers)
    => crash_predicate(apply_edits(cur_trace, orig, <<>>)) = {TRUE}

\* C2 witness: delta_edit has returned a strictly shorter trace of two edits
\* whose replay differs from the replay of the full trace.
OraclePreservedWitness ==
  /\ pc = "return" /\ stable /\ <<result, TRUE>> \in answers
  /\ Len(trace) = 3 /\ Len(cur_trace) = 2
  /\ apply_edits(cur_trace, orig, <<>>) # result

\* C3 (as claimed): the bytes entry_point hands back, the minimised trace
\* replayed on the selected seed, are an input a stable target that crashed
\* on the original buffer can only answer "crash" for.
MinimizedStillCrashes == pc = "done" => crash_predicate(result2) = {TRUE}

\* the target of Scenario B: it has crashed on exactly the non-empty inputs
NonEmptyOracle == stable /\ \A a \in answers : a[2] = (a[1] # <<>>)

\* C4 (as claimed): with the target that crashes on every non-empty input and
\* on no empty one, delta_edit of a non-empty trace over a non-empty base
\* returns the empty trace.
ShrinksToEmptyTrace ==
  (pc = "return" /\ NonEmptyOracle /\ trace # <<>> /\ orig # <<>>)
    => cur_trace = <<>>

\* C4 (amended): with that target, delta_edit of a non-empty trace whose full
\* replay on the non-empty base is non-empty returns the first edit of the
\* trace alone, never the empty trace, and the replay of that edit is non-empty.
ShrinksToOneEdit ==
  (pc = "return" /\ NonEmptyOracle /\ trace # <<>> /\ orig # <<>> /\ result # <<>>)
    => /\ cur_trace = <<trace[1]>>
       /\ apply_edits(cur_trace, orig, <<>>) # <<>>

\* C4 witness: a trace of three edits has been shrunk to its first edit
\* against that target, and the replay of that edit differs from the base.
ShrinksToOneEditWitness ==
  /\ pc = "return" /\ NonEmptyOracle /\ orig # <<>> /\ result # <<>>
  /\ Len(trace) = 3 /\ cur_trace = <<trace[1]>> /\ calls = 2
  /\ apply_edits(cur_trace, orig, <<>>) # orig

\* C5: whatever the target answers, no step of delta_edit lengthens the
\* working trace, which is never longer than the trace delta_edit was given.
NeverLonger ==
  [][Len(cur_trace') <= Len(cur_trace) /\ Len(cur_trace') <= Len(trace)]_vars

\* C5 witness: against an unstable target delta_edit has returned one edit of
\* a trace of three.
NeverLongerWitness ==
  pc = "return" /\ ~stable /\ Len(trace) = 3 /\ Len(cur_trace) = 1

\* C6: against a stable target a second call of delta_edit on the trace the
\* first call returned never replaces the working trace, and returns it.
Idempotent == run = 2 => cur_trace = first_trace

\* C6 witness: the second call has returned after searching a trace of two
\* edits that the first call had shrunk from three.
IdempotentWitness ==
  /\ pc = "return" /\ run = 2
  /\ Len(trace) = 3 /\ Len(first_trace) = 2 /\ cur_trace = first_trace

\* C7: the trace edit_distance returns has as many edits as the distance it
\* returns; equal sequences give distance 0 and the empty trace.
TraceLengthIsDistance ==
  Measured => /\ Len(trace) = dist
              /\ (orig = crash => dist = 0 /\ trace = <<>>)

\* C7 witness: a distance of two between sequences that also share a byte.
TraceLengthIsDistanceWitness ==
  Measured /\ dist = 2 /\ Len(orig) = 2 /\ Len(crash) = 3

\* C8: the distance edit_distance returns is the Levenshtein distance, which
\* lies between the difference of the lengths and the greater length.
DistanceIsLevenshtein ==
  Measured =>
    /\ dist = levenshtein(orig, crash, Len(orig), Len(crash))
    /\ dist >= Len(orig) - Len(crash)
    /\ dist >= Len(crash) - Len(orig)
    /\ dist <= (IF Len(orig) >= Len(crash) THEN Len(orig) ELSE Len(crash))

\* C8 witness: two bytes against three at distance three, which only
\* substitutions next to an insertion reach.
DistanceIsLevenshteinWitness ==
  Measured /\ Len(orig) = 2 /\ Len(crash) = 3 /\ dist = 3

\* C9: delta_edit of a trace of at most one edit returns it unchanged and
\* calls crash_predicate not once, whatever the base and the target.
ShortTraceUntouched ==
  Len(trace) <= 1
    => calls = 0 /\ cur_trace = trace /\ pc \in {"delta_edit", "return"}

\* C9 witness: delta_edit has returned from a trace of one edit.
ShortTraceUntouchedWitness == pc = "return" /\ Len(trace) = 1 /\ orig # <<>>

\* C10: the seed find_closest_initial returns is a seed of the corpus at the
\* least distance from the crash, and the first such seed of the corpus.
ClosestFirstSeed ==
  Selected =>
    LET d == [m \in 1..Len(input_testcases) |->
                edit_distance(input_testcases[m], crash).dist]
    IN  \E n \in 1..Len(input_testcases) :
          /\ orig = input_testcases[n]
          /\ \A m \in 1..Len(input_testcases) :
               /\ d[m] >= d[n]
               /\ m < n => d[m] > d[n]

\* C10 witness: two different seeds at the same distance from the crash, and
\* the first of them selected.
ClosestFirstSeedWitness ==
  /\ Selected /\ Len(input_testcases) = 2
  /\ input_testcases[1] # input_testcases[2]
  /\ edit_distance(input_testcases[1], crash).dist
       = edit_distance(input_testcases[2], crash).dist
  /\ edit_distance(input_testcases[1], crash).dist > 0
  /\ orig = input_testcases[1]

\* the corpus has been loaded by read_testcase_dir, which returned
Loaded == pc \notin {"read_testcase_dir", "path_error"}

\* C11: once the loader has returned an empty corpus (a directory without
\* regular files included), the run gets no further than the logic error of
\* seed selection: no seed is selected, no distance or trace is computed, the
\* oracle is never called, the caller's buffer and length are as they were on
\* entry, and nothing runs after the error.
EmptyCorpusFatal ==
  (Loaded /\ input_testcases = <<>>) =>
    /\ pc \in {"entry_point", "logic_error"}
    /\ orig = <<>> /\ dist = 0 /\ trace = <<>> /\ cur_trace = <<>>
    /\ calls = 0 /\ answers = {<<crash, TRUE>>}
    /\ mem = crash /\ len_ptr = Len(crash)
    /\ pc = "logic_error" => ~ENABLED Next

EmptyCorpusFatalWitness ==
  /\ pc = "logic_error"
  /\ path_kind = "directory"
  /\ input_testcases = <<>>
  /\ Len(mem) = MaxCrashLen

\* C12: when entry_point has returned, the buffer the caller's *mem designates
\* holds exactly the minimized bytes (the replay of the minimized trace on the
\* seed) and *len_ptr is their number.
HandOff ==
  pc = "done" =>
    /\ result2 = apply_edits(cur_trace, orig, <<>>)
    /\ len_ptr = Len(result2)
    /\ mem = result2

\* the chunks of a scan, stated apart from the code: chunk i (from 0) of a
\* trace of length len at granularity k starts at ChunkLo and ends before
\* ChunkHi; the first len % k chunks are one longer than the others
ChunkLo(len, k, i) == i * (len \div k) + (IF i < len % k THEN i ELSE len % k)
ChunkHi(len, k, i) == ChunkLo(len, k, i + 1)

\* the edits of tr at the indices lo .. hi-1 (from 0), and all the others
KeepOnly(tr, lo, hi) == SubSeq(tr, lo + 1, hi)
KeepOut(tr, lo, hi) == SubSeq(tr, 1, lo) \o SubSeq(tr, hi + 1, Len(tr))

\* the candidate was submitted and the target said b
Answered(candidate, b) == stable => <<candidate, b>> \in answers'

\* the step is the query of chunk i of the running scan: the chunk-only
\* candidate, and on false the complement is next
ChunkQuery(i) ==
  LET lo == ChunkLo(Len(cur_trace), parts, i)
      hi == ChunkHi(Len(cur_trace), parts, i)
      only == KeepOnly(cur_trace, lo, hi)
  IN  /\ pc = "test_partitions" /\ start = lo /\ lo < hi
      /\ \/ /\ Answered(apply_edits(only, orig, <<>>), TRUE)
            /\ cur_trace' = only /\ parts' = 2 /\ pc' = "delta_edit"
         \/ /\ Answered(apply_edits(only, orig, <<>>), FALSE)
            /\ cur_trace' = cur_trace /\ parts' = parts
            /\ pc' = "complement" /\ start' = lo /\ end' = hi

\* the step is the query of the complement of chunk i, whose chunk-only
\* candidate was false; on false chunk i + 1 is next
ComplementQuery(i) ==
  LET lo == ChunkLo(Len(cur_trace), parts, i)
      hi == ChunkHi(Len(cur_trace), parts, i)
      others == KeepOut(cur_trace, lo, hi)
  IN  /\ pc = "complement" /\ start = lo /\ end = hi
      /\ \/ /\ Answered(apply_edits(others, orig, <<>>), TRUE)
            /\ cur_trace' = others /\ parts' = 2 /\ pc' = "delta_edit"
         \/ /\ Answered(apply_edits(others, orig, <<>>), FALSE)
            /\ cur_trace' = cur_trace /\ parts' = parts
            /\ pc' = "test_partitions" /\ start' = hi

\* C13: the oracle is called once per step and in a fixed order: a scan
\* starts at chunk 0, each chunk's only-candidate is followed (only when it was
\* false) by its complement and then by the next chunk; the first query is
\* made at granularity 2, a true answer puts the granularity back to 2 and
\* restarts on the shrunken trace, and the granularity doubles only after a
\* scan whose queries were all false.
QueryOrder ==
  [][/\ calls' \in {calls, calls + 1}
     /\ (calls = 0 /\ calls' = 1) => parts = 2
     /\ calls' = calls + 1 =>
          \E i \in 0 .. (parts - 1) : ChunkQuery(i) \/ ComplementQuery(i)
     /\ calls' = calls =>
          /\ cur_trace' = cur_trace
          /\ pc' # "complement"
          /\ pc' = "test_partitions" => pc = "delta_edit" /\ start' = 0
          /\ parts' # parts =>
               /\ parts' = 2 * parts
               /\ pc = "test_partitions" /\ start = Len(cur_trace)
               /\ pc' = "delta_edit"]_vars

\* in the second scan (granularity 4) the second chunk's only-candidate was
\* false and its complement is next
QueryOrderWitness ==
  /\ pc = "complement" /\ parts = 4 /\ start = 1 /\ end = 2
  /\ Len(cur_trace) = MaxTrace /\ calls = 7

\* the k chunks ChunkLo .. ChunkHi split [0, len): every index lies in exactly
\* one chunk, and the first len % k chunks hold len \div k + 1 indices, the
\* others len \div k
SplitsRange(len, k) ==
  /\ ChunkLo(len, k, 0) = 0 /\ ChunkHi(len, k, k - 1) = len
  /\ \A i \in 0 .. (k - 1) :
       ChunkHi(len, k, i) - ChunkLo(len, k, i)
         = (len \div k) + (IF i < len % k THEN 1 ELSE 0)
  /\ \A j \in 0 .. (len - 1) :
       Cardinality({i \in 0 .. (k - 1) :
                      ChunkLo(len, k, i) <= j /\ j < ChunkHi(len, k, i)}) = 1

\* C14: during a scan at granularity k over a trace of length len, the chunk
\* the scan stands at is one of k contiguous chunks that split [0, len) left to
\* right, each index in exactly one chunk, the first len % k chunks one index
\* longer than len \div k and the others exactly len \div k; its mask is true
\* on the chunk and nowhere else, and the scan ends when the chunks are used up.
PartitionShape ==
  pc \in {"test_partitions", "complement"} =>
    LET len == Len(cur_trace)
        k == parts
    IN  /\ SplitsRange(len, k)
        /\ \E i \in 0 .. k :
             /\ start = ChunkLo(len, k, i)
             /\ pc = "test_partitions" =>
                  /\ remainder = (IF i < len % k THEN (len % k) - i ELSE 0)
                  /\ (start = len) <=> (\A n \in i .. (k - 1) :
                                        ChunkLo(len, k, n) = ChunkHi(len, k, n))
             /\ pc = "complement" =>
                  /\ i < k
                  /\ end = ChunkHi(len, k, i)
                  /\ end - start = (len \div k) + (IF i < len % k THEN 1 ELSE 0)
                  /\ mask = [j \in 1 .. len |-> start < j /\ j <= end]

\* three edits in two chunks: the scan stands at the second chunk, which is
\* one edit, after a first chunk of two
PartitionShapeWitness ==
  /\ pc = "complement" /\ parts = 2 /\ Len(cur_trace) = 3
  /\ start = 2 /\ end = 3 /\ mask = <<FALSE, FALSE, TRUE>>

\* C15: a single Insert{position, byte} applied to a buffer of n bytes, n = 0
\* included, gives n + 1 bytes with the byte at index min(position, n) and the
\* other bytes in their order. Read off the replay of a one-edit trace on the
\* seed.
InsertSemantics ==
  (Measured /\ Len(trace) = 1 /\ trace[1].kind = "INS") =>
    LET n == Len(orig)
        at == IF trace[1].index < n THEN trace[1].index ELSE n
    IN  /\ Len(result) = n + 1
        /\ result[at + 1] = trace[1].data
        /\ erase_at(result, at) = orig

RECURSIVE Restrict(_, _)
\* the edits of tr whose mask entry is true, in their order
Restrict(tr, m) ==
  IF tr = <<>> THEN <<>>
  ELSE Restrict(SubSeq(tr, 1, Len(tr) - 1), m)
         \o (IF m[Len(tr)] THEN <<tr[Len(tr)]>> ELSE <<>>)

\* the masked replay of tr on the base and the unmasked replay of the edits
\* the mask keeps are the same bytes
SameAsRestricted(tr, m) ==
  apply_edits(tr, orig, m) = apply_edits(Restrict(tr, m), orig, <<>>)

\* C16: replaying a trace under a mask with one entry per edit gives the same
\* bytes as replaying, without mask, the trace restricted to the edits the
\* mask keeps: for every mask over the trace delta_edit is called with, and
\* for the chunk mask and the complement mask of every step of the scans of
\* that trace (a shrunken trace is itself a trace delta_edit is called with).
MaskEquivalence ==
  /\ (pc = "delta_edit" /\ calls = 0) =>
       \A m \in [1 .. Len(cur_trace) -> BOOLEAN] : SameAsRestricted(cur_trace, m)
  /\ (pc = "complement" /\ cur_trace = trace) =>
       /\ Len(mask) = Len(cur_trace)
       /\ SameAsRestricted(cur_trace, mask)
       /\ SameAsRestricted(cur_trace, complement(mask))

\* a chunk whose masked replay is neither the base nor the full replay
MaskEquivalenceWitness ==
  /\ pc = "complement" /\ Len(cur_trace) = MaxTrace
  /\ apply_edits(cur_trace, orig, mask) \notin {orig, result}
  /\ apply_edits(cur_trace, orig, complement(mask)) \notin {orig, result}

\* C17: delta_edit returns in the end, whatever the trace, the base and the
\* answers of the oracle (those of an unstable target included); it is inside
\* the loop only while |current| > 1 and k <= 2 * |current| and has returned
\* only with |current| <= 1 or k > 2 * |current|; and every scan of
\* test_partitions that was started comes back to delta_edit.
Termination ==
  /\ <>(pc = "return")
  /\ [](pc = "return" =>
          Len(cur_trace) <= 1 \/ parts > 2 * Len(cur_trace))
  /\ [](pc \in {"test_partitions", "complement"} =>
          Len(cur_trace) > 1 /\ parts <= 2 * Len(cur_trace))
  /\ (pc \in {"test_partitions", "complement"}) ~> (pc = "delta_edit")

\* delta_edit has returned more than one edit, after a last scan with more
\* chunks asked for than there are edits
TerminationWitness ==
  /\ pc = "return" /\ Len(cur_trace) >= 2 /\ Len(cur_trace) < Len(trace)
  /\ parts > 2 * Len(cur_trace) /\ ~stable

\* the table edit_distance has filled for the seed and the crash
Table == fill_table(lookup_edges(orig, crash), orig, crash, 1, 1)

\* the cell has the given predecessor
ComesFrom(cell, row, col) == cell.last_row = row /\ cell.last_col = col

\* the insert and the delete predecessor of cell (i, j) both attain the
\* minimum of the three predecessor distances, and the bytes differ
InsertDeleteTie(i, j) ==
  /\ orig[i] # crash[j]
  /\ At(Table, i, j - 1).dist = At(Table, i - 1, j).dist
  /\ At(Table, i, j - 1).dist <= At(Table, i - 1, j - 1).dist

\* C18: in the table behind the distance and the trace, every interior cell
\* whose bytes differ records an Insert coming from (i, j-1) whenever that
\* predecessor attains the least of the three predecessor distances, else a
\* Delete coming from (i-1, j) whenever that one attains it, and a Substitute
\* coming from (i-1, j-1) only when neither does; a cell whose bytes match has
\* the distance of the diagonal and records no edit.
TieBreak ==
  pc = "delta_edit" =>
    /\ dist = At(Table, Len(orig), Len(crash)).dist
    /\ trace = trace_walk(Table, Len(orig), Len(crash))
    /\ \A i \in 1 .. Len(orig) : \A j \in 1 .. Len(crash) :
         LET cell == At(Table, i, j)
             insert == At(Table, i, j - 1).dist
             delete == At(Table, i - 1, j).dist
             substitute == At(Table, i - 1, j - 1).dist
             least == CHOOSE d \in {insert, delete, substitute} :
                        \A e \in {insert, delete, substitute} : d <= e
         IN  IF orig[i] = crash[j]
             THEN /\ cell.dist = substitute
                  /\ cell.last_edit = nullopt
                  /\ ComesFrom(cell, i - 1, j - 1)
             ELSE /\ cell.dist = least + 1
                  /\ IF insert = least
                     THEN cell.last_edit.kind = "INS" /\ ComesFrom(cell, i, j - 1)
                     ELSE IF delete = least
                     THEN cell.last_edit.kind = "DEL" /\ ComesFrom(cell, i - 1, j)
                     ELSE cell.last_edit.kind = "SUB"
                            /\ ComesFrom(cell, i - 1, j - 1)

\* a tie between insert and delete at the last cell, which the trace begins
\* with: it is an Insert
TieBreakWitness ==
  /\ pc = "delta_edit"
  /\ Len(orig) >= 2 /\ Len(crash) >= 2
  /\ InsertDeleteTie(Len(orig), Len(crash))
  /\ trace[1].kind = "INS"

\* C19: when delta_edit returns two or more edits to a stable target, the
\* target has answered false for every edit of the result replayed alone and
\* for the result replayed without any one of its edits.
OneMinimal ==
  (pc = "return" /\ stable /\ Len(cur_trace) >= 2) =>
    \A i \in 1 .. Len(cur_trace) :
      /\ crash_predicate(apply_edits(<<cur_trace[i]>>, orig, <<>>)) = {FALSE}
      /\ crash_predicate(
           apply_edits(KeepOut(cur_trace, i - 1, i), orig, <<>>)) = {FALSE}

\* two edits are returned out of three, and the target crashes on their replay
OneMinimalWitness ==
  /\ pc = "return" /\ stable
  /\ Len(cur_trace) = 2 /\ Len(trace) = 3
  /\ crash_predicate(apply_edits(cur_trace, orig, <<>>)) = {TRUE}

RECURSIVE IsSubsequence(_, _)
\* a is b with some elements left out, the others in their order
IsSubsequence(a, b) ==
  IF a = <<>> THEN TRUE
  ELSE IF b = <<>> THEN FALSE
  ELSE IF Head(a) = Head(b) THEN IsSubsequence(Tail(a), Tail(b))
  ELSE IsSubsequence(a, Tail(b))

\* the number of edits the mask keeps
Kept(m) == Cardinality({j \in 1 .. Len(m) : m[j]})

\* C20: a mask that test_partitions tries keeps at least one edit and not all
\* of them, so the all-removed candidate is never put to the oracle; every
\* replacement of the working trace is a shorter, non-empty subsequence of
\* the trace before, in order; and delta_edit never holds an empty trace when
\* it was given a non-empty one.
StrictShrink ==
  /\ [](trace # <<>> => cur_trace # <<>>)
  /\ [](pc = "complement" =>
          /\ Len(mask) = Len(cur_trace)
          /\ 1 <= Kept(mask) /\ Kept(mask) < Len(mask)
          /\ 1 <= Kept(complement(mask)) /\ Kept(complement(mask)) < Len(mask))
  /\ [][/\ (calls' = calls + 1 /\ pc = "test_partitions") =>
            LET size == (Len(cur_trace) \div parts)
                          + (IF remainder > 0 THEN 1 ELSE 0)
            IN  /\ 1 <= size /\ size < Len(cur_trace)
                /\ start + size <= Len(cur_trace)
        /\ cur_trace' # cur_trace =>
            /\ calls' = calls + 1
            /\ 1 <= Len(cur_trace') /\ Len(cur_trace') < Len(cur_trace)
            /\ IsSubsequence(cur_trace', cur_trace)]_vars

\* the complement of the middle edit was kept: the first and the last edit of
\* three remain
StrictShrinkWitness ==
  /\ pc = "delta_edit" /\ parts = 2 /\ calls = 8
  /\ Len(trace) = 3 /\ trace[1] # trace[3]
  /\ cur_trace = <<trace[1], trace[3]>>
====
